---- MODULE Spec2Model ----
(***************************************************************************)
(* Browser Audio IR Blaster: the NEC frame generator (IRGenerator), the    *)
(* WAV serializer and the hex command handling of the Vue application.     *)
(*                                                                         *)
(* Durations are JavaScript numbers with at most one binary fraction digit *)
(* (562.5, 1687.5); the model carries them as integers counted in half     *)
(* microseconds (HalfUs), so 562.5 us is 1125.                             *)
(***************************************************************************)
EXTENDS Integers, Sequences, FiniteSets

(***************************************************************************)
(* IEEE-754 binary64 arithmetic, as far as generatePulse needs it.         *)
(* A natural number of any size is a sequence of limbs in base 1024, least *)
(* significant first; a positive double is [m |-> limbs, e |-> exponent],  *)
(* value m * 2^e, with at most 53 significant bits in m.                   *)
(***************************************************************************)
LimbBase == 2^10

RECURSIVE NatToBig(_)
NatToBig(n) ==
    IF n = 0 THEN <<>> ELSE <<n % LimbBase>> \o NatToBig(n \div LimbBase)

RECURSIVE BigToNat(_)
BigToNat(x) == IF x = <<>> THEN 0 ELSE Head(x) + LimbBase * BigToNat(Tail(x))

\* x without its leading (most significant) zero limbs.
RECURSIVE BigTrim(_)
BigTrim(x) ==
    IF x = <<>> \/ x[Len(x)] # 0 THEN x ELSE BigTrim(SubSeq(x, 1, Len(x) - 1))

\* Number of significant bits of a small natural.
RECURSIVE SmallBitLen(_)
SmallBitLen(n) == IF n = 0 THEN 0 ELSE 1 + SmallBitLen(n \div 2)

\* Bits per limb.
LimbBits == SmallBitLen(LimbBase) - 1

\* Number of significant bits of x.
BigBitLen(x) ==
    LET t == BigTrim(x)
    IN  IF t = <<>> THEN 0
        ELSE LimbBits * (Len(t) - 1) + SmallBitLen(t[Len(t)])

\* x * k + carry, for a natural k below 2^20.
RECURSIVE BigMulSmall(_, _, _)
BigMulSmall(x, k, carry) ==
    IF x = <<>> THEN NatToBig(carry)
    ELSE LET t == Head(x) * k + carry
         IN  <<t % LimbBase>> \o BigMulSmall(Tail(x), k, t \div LimbBase)

\* Long division of x by a natural k below 2^20, most significant limb first.
RECURSIVE BigDivStep(_, _, _, _, _)
BigDivStep(x, k, i, rem, acc) ==
    IF i = 0 THEN [q |-> acc, r |-> rem]
    ELSE LET t == rem * LimbBase + x[i]
         IN  BigDivStep(x, k, i - 1, t % k, <<t \div k>> \o acc)

BigDivSmall(x, k) == BigDivStep(x, k, Len(x), 0, <<>>)

\* x + 1.
RECURSIVE BigInc(_)
BigInc(x) ==
    IF x = <<>> THEN <<1>>
    ELSE IF Head(x) + 1 < LimbBase THEN <<Head(x) + 1>> \o Tail(x)
    ELSE <<0>> \o BigInc(Tail(x))

\* x * 2^s.
BigShiftLeft(x, s) ==
    [i \in 1..(s \div LimbBits) |-> 0] \o BigMulSmall(x, 2^(s % LimbBits), 0)

\* x \div 2^t, and whether a 1 bit was shifted out.
BigShiftRight(x, t) ==
    LET a  == t \div LimbBits
        lo == SubSeq(x, 1, a)
        qr == BigDivSmall(SubSeq(x, a + 1, Len(x)), 2^(t % LimbBits))
    IN  [q |-> qr.q, lost |-> qr.r # 0 \/ \E i \in 1..Len(lo) : lo[i] # 0]

BigIsOdd(x) == x # <<>> /\ x[1] % 2 = 1

\* x < y.
RECURSIVE BigLessFrom(_, _, _)
BigLessFrom(x, y, i) ==
    IF i = 0 THEN FALSE
    ELSE IF x[i] # y[i] THEN x[i] < y[i]
    ELSE BigLessFrom(x, y, i - 1)

BigLessTrimmed(x, y) ==
    IF Len(x) # Len(y) THEN Len(x) < Len(y) ELSE BigLessFrom(x, y, Len(x))

BigLess(x, y) == BigLessTrimmed(BigTrim(x), BigTrim(y))

\* x + y + carry.
RECURSIVE BigAdd(_, _, _)
BigAdd(x, y, carry) ==
    IF x = <<>> /\ y = <<>> THEN NatToBig(carry)
    ELSE LET t == (IF x = <<>> THEN 0 ELSE Head(x))
                  + (IF y = <<>> THEN 0 ELSE Head(y)) + carry
         IN  <<t % LimbBase>>
             \o BigAdd(IF x = <<>> THEN x ELSE Tail(x),
                       IF y = <<>> THEN y ELSE Tail(y), t \div LimbBase)

\* x - y - borrow, for x >= y + borrow.
RECURSIVE BigSub(_, _, _)
BigSub(x, y, borrow) ==
    IF x = <<>> THEN <<>>
    ELSE LET t == Head(x) - (IF y = <<>> THEN 0 ELSE Head(y)) - borrow
         IN  <<t % LimbBase>>
             \o BigSub(Tail(x), IF y = <<>> THEN y ELSE Tail(y),
                       IF t < 0 THEN 1 ELSE 0)

\* x * y.
RECURSIVE BigMul(_, _)
BigMul(x, y) ==
    IF y = <<>> THEN <<>>
    ELSE BigAdd(BigMulSmall(x, Head(y), 0), <<0>> \o BigMul(x, Tail(y)), 0)

\* Round the exact value (n + f) * 2^e, where 0 <= f < 1 and inexact says
\* f > 0, to 53 significant bits, ties to even: the rounding of every
\* binary64 operation.  n has at least 54 bits whenever inexact holds.
RoundToDouble(n, inexact, e) ==
    LET t == BigBitLen(n) - 53
    IN  IF t <= 0 THEN [m |-> BigTrim(n), e |-> e]
        ELSE LET h    == BigShiftRight(n, t - 1)
                 kept == BigShiftRight(h.q, 1).q
                 half == BigIsOdd(h.q)
                 more == h.lost \/ inexact
                 up   == half /\ (more \/ BigIsOdd(kept))
             IN  [m |-> BigTrim(IF up THEN BigInc(kept) ELSE kept), e |-> e + t]

\* The double nearest to (a * 2^ea) / b, for naturals a > 0 and 0 < b < 2^20.
DoubleDiv(a, ea, b) ==
    LET s  == 60 + SmallBitLen(b)
        qr == BigDivSmall(BigShiftLeft(NatToBig(a), s), b)
    IN  RoundToDouble(qr.q, qr.r # 0, ea - s)

\* The double nearest to x * k, for a double x and a natural k below 2^20.
DoubleMul(x, k) == RoundToDouble(BigMulSmall(x.m, k, 0), FALSE, x.e)

\* The double nearest to x * y, for doubles x and y.
DoubleTimes(x, y) == RoundToDouble(BigMul(x.m, y.m), FALSE, x.e + y.e)

\* x % y (the JavaScript remainder, exact) scaled by 2^(-y.e), for a natural
\* x already scaled by 2^(-y.e) and a double y with y.e <= 0; k is
\* floor(x / y) to within one.
FloatMod(x, y, k) ==
    IF ~BigLess(x, BigMulSmall(y.m, k + 1, 0))
    THEN BigSub(x, BigMulSmall(y.m, k + 1, 0), 0)
    ELSE IF ~BigLess(x, BigMulSmall(y.m, k, 0))
    THEN BigSub(x, BigMulSmall(y.m, k, 0), 0)
    ELSE BigSub(x, BigMulSmall(y.m, k - 1, 0), 0)

\* Math.floor of a positive double below 2^31.
DoubleFloor(x) ==
    IF x.e >= 0 THEN BigToNat(BigShiftLeft(x.m, x.e))
    ELSE BigToNat(BigShiftRight(x.m, -x.e).q)

(***************************************************************************)
(* IRGenerator (src/ir-generator.js, the square-wave carrier version).     *)
(***************************************************************************)
SampleRate == 192000
DefaultFrequency == 38
DutyCyclePercent == 33
MicrosPerSecond == 1000000

\* The durations generateNECCommand passes to generatePulse, in half
\* microseconds: 9000, 4500, 562.5, 1687.5, 562.5 and 50000 us.
AGCPulse == 18000
AGCSpace == 9000
BitPulse == 1125
OneSpace == 3375
ZeroSpace == 1125
TailSilence == 100000

SegmentDurations == {AGCPulse, AGCSpace, BitPulse, OneSpace, ZeroSpace, TailSilence}

\* new IRGenerator(carrierFrequency): kHz to Hz, fixed rate and duty cycle.
IRGenerator(carrierFrequency) ==
    [carrierFrequency |-> carrierFrequency * 1000,
     sampleRate       |-> SampleRate,
     dutyCycle        |-> DutyCyclePercent]

\* Math.floor((duration / 1000000) * sampleRate) in binary64; duration is
\* in half microseconds, that is the double duration * 2^-1.
SampleCount(duration, sampleRate) ==
    DoubleFloor(DoubleMul(DoubleDiv(duration, -1, MicrosPerSecond), sampleRate))

\* SampleCount for the durations and the rate the generator uses, computed
\* once.
SampleCountAtRate == [d \in SegmentDurations |-> SampleCount(d, SampleRate)]

\* generatePulse(duration, modulated): the Float32Array it returns, kept as
\* the arguments of the call and the array's length.  Its samples follow
\* from these and the generator (carrier on/off for a modulated pulse, all
\* 0 for a space).
generatePulse(gen, duration, modulated) ==
    [duration  |-> duration,
     modulated |-> modulated,
     length    |-> IF gen.sampleRate = SampleRate /\ duration \in SegmentDurations
                   THEN SampleCountAtRate[duration]
                   ELSE SampleCount(duration, gen.sampleRate)]

\* this.dutyCycle = 0.33 is the double nearest to DutyCyclePercent / 100.
PercentScale == 100
DutyCycle(gen) == DoubleDiv(gen.dutyCycle, 0, PercentScale)

\* const carrierPeriod = this.sampleRate / this.carrierFrequency, for a
\* positive carrier frequency.
CarrierPeriod(gen) == DoubleDiv(gen.sampleRate, 0, gen.carrierFrequency)

\* const onSamples = Math.floor(carrierPeriod * this.dutyCycle)
OnSamples(gen) == DoubleFloor(DoubleTimes(CarrierPeriod(gen), DutyCycle(gen)))

\* carrierPosition < onSamples, where carrierPosition = i % carrierPeriod,
\* both sides scaled by 2^(-carrierPeriod.e).
CarrierPositionBelow(i, carrierPeriod, onSamples, k) ==
    BigLess(FloatMod(BigShiftLeft(NatToBig(i), -carrierPeriod.e), carrierPeriod, k),
            BigShiftLeft(NatToBig(onSamples), -carrierPeriod.e))

\* Whether sample i of a modulated pulse is on.  A carrier frequency of 0
\* makes carrierPeriod and onSamples Infinity (i % Infinity = i < Infinity);
\* a negative one makes onSamples negative, and i % carrierPeriod is never
\* negative.
CarrierOn(gen, i) ==
    IF gen.carrierFrequency = 0 THEN TRUE
    ELSE IF gen.carrierFrequency < 0 THEN FALSE
    ELSE CarrierPositionBelow(i, CarrierPeriod(gen), OnSamples(gen),
                              (i * gen.carrierFrequency) \div gen.sampleRate)

\* pulse[i] = carrierPosition < onSamples ? 0.8 : 0, and pulse.fill(0) for
\* a space.  A sample is a rational <<n, d>>.
CarrierAmplitude == <<4, 5>>
Silence == <<0, 1>>

PulseSampleCarrierInSpace(gen, pulse, i) ==
    IF CarrierOn(gen, i) THEN CarrierAmplitude ELSE Silence

PulseSample(gen, pulse, i) ==
    IF pulse.modulated /\ CarrierOn(gen, i) THEN CarrierAmplitude ELSE Silence

\* JavaScript ~x, x & 0xFF and (x >> n) & 1 on int32 values.
BitNot(x) == -x - 1
And255(x) == x % 256
BitAtUnmasked(x, n) == IF x \div 2^n # 0 THEN 1 ELSE 0

BitAt(x, n) == (x \div 2^n) % 2

\* const data = [address, (~address) & 0xFF, command, (~command) & 0xFF]
NECDataNoComplement(address, command) == <<address, address, command, command>>

NECData(address, command) ==
    <<address, And255(BitNot(address)), command, And255(BitNot(command))>>

\* The two segments pushed for one data bit.
BitSegments(gen, byte, bit) ==
    <<generatePulse(gen, BitPulse, TRUE),
      generatePulse(gen, IF BitAt(byte, bit) = 1 THEN OneSpace ELSE ZeroSpace, FALSE)>>

\* for (const byte of data) for (let bit = 0; bit < 8; bit++) ...
ByteSegmentsMsbFirst(gen, byte) ==
    BitSegments(gen, byte, 7) \o BitSegments(gen, byte, 6) \o
    BitSegments(gen, byte, 5) \o BitSegments(gen, byte, 4) \o
    BitSegments(gen, byte, 3) \o BitSegments(gen, byte, 2) \o
    BitSegments(gen, byte, 1) \o BitSegments(gen, byte, 0)

RECURSIVE ByteSegmentsFrom(_, _, _)
ByteSegmentsFrom(gen, byte, bit) ==
    IF bit >= 8 THEN <<>>
    ELSE BitSegments(gen, byte, bit) \o ByteSegmentsFrom(gen, byte, bit + 1)

ByteSegments(gen, byte) == ByteSegmentsFrom(gen, byte, 0)

RECURSIVE DataSegments(_, _)
DataSegments(gen, data) ==
    IF data = <<>> THEN <<>>
    ELSE ByteSegments(gen, Head(data)) \o DataSegments(gen, Tail(data))

\* The leader: segments.push(generatePulse(9000, true)), then (4500, false).
LeaderSegments(gen) ==
    <<generatePulse(gen, AGCPulse, TRUE), generatePulse(gen, AGCSpace, FALSE)>>

\* The final burst and the silence at the end.
TrailerNoStop(gen) == <<generatePulse(gen, TailSilence, FALSE)>>

TrailerSegments(gen) ==
    <<generatePulse(gen, BitPulse, TRUE), generatePulse(gen, TailSilence, FALSE)>>

\* segments.reduce((sum, seg) => sum + seg.length, 0)
RECURSIVE TotalLength(_)
TotalLength(segments) ==
    IF segments = <<>> THEN 0
    ELSE Head(segments).length + TotalLength(Tail(segments))

\* signal.set(segment, offset); offset += segment.length, for each segment:
\* the segments as they lie in the signal, each with its first index.
RECURSIVE PlaceSegments(_, _)
PlaceSegments(segments, offset) ==
    IF segments = <<>> THEN <<>>
    ELSE <<[offset    |-> offset,
            length    |-> Head(segments).length,
            duration  |-> Head(segments).duration,
            modulated |-> Head(segments).modulated]>>
         \o PlaceSegments(Tail(segments), offset + Head(segments).length)

\* Combine all segments: the Float32Array signal, kept as its length and
\* the placed segments that fill it.
CombineSegmentsShifted(segments) ==
    [length |-> TotalLength(segments),
     parts  |-> PlaceSegments(segments, 1)]

CombineSegments(segments) ==
    [length |-> TotalLength(segments),
     parts  |-> PlaceSegments(segments, 0)]

\* generateNECCommand(address, command)
generateNECCommandRepeat(gen, address, command) ==
    CombineSegments(LeaderSegments(gen)
                    \o DataSegments(gen, NECData(address, command))
                    \o TrailerSegments(gen)
                    \o LeaderSegments(gen)
                    \o TrailerSegments(gen))

generateNECCommand(gen, address, command) ==
    CombineSegments(LeaderSegments(gen)
                    \o DataSegments(gen, NECData(address, command))
                    \o TrailerSegments(gen))

(***************************************************************************)
(* audioBufferToWav.  An AudioBuffer is [numberOfChannels, length,         *)
(* sampleRate, channelData]; channelData[c + 1] is getChannelData(c), a    *)
(* sequence of samples.  A sample is a rational <<n, d>>, d > 0: every     *)
(* product with 0x8000 or 0x7FFF the model forms is either an integer or   *)
(* at least 1/20 away from one, so the binary32 rounding of the stored     *)
(* sample (relative error below 2^-24) never changes the integer written.  *)
(***************************************************************************)
PcmNegScale == 32768
PcmPosScale == 32767
WavHeaderSize == 44

\* Math.max(-1, Math.min(1, s))
ClampNone(s) == s

Clamp(s) ==
    IF s[1] > s[2] THEN <<1, 1>>
    ELSE IF s[1] < -s[2] THEN <<-1, 1>>
    ELSE s

\* s < 0 ? s * 0x8000 : s * 0x7FFF, as an exact rational.
Scale(s) ==
    IF s[1] < 0 THEN <<s[1] * PcmNegScale, s[2]>> ELSE <<s[1] * PcmPosScale, s[2]>>

\* The integer part of a rational, toward zero (ToNumber, then the
\* truncation of ToInt16).
TruncateRound(q) == (2 * q[1] + q[2]) \div (2 * q[2])

Truncate(q) == IF q[1] >= 0 THEN q[1] \div q[2] ELSE -((-q[1]) \div q[2])

\* DataView.setInt16(offset, x, true): truncate, wrap modulo 2^16, store
\* the two's complement little-endian.
Int16LE(q) ==
    LET u == Truncate(q) % 65536 IN <<u % 256, u \div 256>>

\* DataView.setUint16 / setUint32 with littleEndian = true.
Uint16LE(v) == <<v % 256, (v \div 256) % 256>>
Uint32LE(v) ==
    <<v % 256, (v \div 256) % 256, (v \div 65536) % 256, (v \div 16777216) % 256>>

\* writeString: the char codes of 'RIFF', 'WAVE', 'fmt ' and 'data'.
RiffTag == <<82, 73, 70, 70>>
WaveTag == <<87, 65, 86, 69>>
FmtTag  == <<102, 109, 116, 32>>
DataTag == <<100, 97, 116, 97>>

\* Store bytes into the view at a byte offset (views index from 1).
SetBytes(view, offset, bytes) ==
    [i \in 1..Len(view) |->
        IF i - offset \in 1..Len(bytes) THEN bytes[i - offset] ELSE view[i]]

\* floatTo16BitPCM(output, offset, input)
RECURSIVE floatTo16BitPCM(_, _, _)
floatTo16BitPCM(output, offset, input) ==
    IF input = <<>> THEN output
    ELSE floatTo16BitPCM(SetBytes(output, offset, Int16LE(Scale(Clamp(Head(input))))),
                         offset + 2, Tail(input))

\* const length = buffer.length * buffer.numberOfChannels * 2
WavDataLengthMono(buffer) == buffer.length * 2

WavDataLength(buffer) == buffer.length * buffer.numberOfChannels * 2

\* The 44 header bytes, in the order the code writes them.
WavHeader(buffer) ==
    LET length == WavDataLength(buffer)
    IN  RiffTag \o Uint32LE(36 + length) \o WaveTag \o FmtTag
        \o Uint32LE(16) \o Uint16LE(1) \o Uint16LE(buffer.numberOfChannels)
        \o Uint32LE(buffer.sampleRate)
        \o Uint32LE(buffer.sampleRate * 2 * buffer.numberOfChannels)
        \o Uint16LE(buffer.numberOfChannels * 2) \o Uint16LE(16)
        \o DataTag \o Uint32LE(length)

\* audioBufferToWav(buffer): the bytes of the ArrayBuffer put in the Blob.
\* The ArrayBuffer starts zeroed; only getChannelData(0) is written.
audioBufferToWav(buffer) ==
    LET zeroed == [i \in 1..(WavHeaderSize + WavDataLength(buffer)) |-> 0]
        headed == SetBytes(zeroed, 0, WavHeader(buffer))
    IN  floatTo16BitPCM(headed, WavHeaderSize, buffer.channelData[1])

(***************************************************************************)
(* Hex command text.  A JavaScript string is a sequence of one-character   *)
(* strings.  A Number produced by parseInt is [nan, neg, digits]: NaN, or  *)
(* the sign and the hexadecimal digits (most significant first) of an      *)
(* integer, which may exceed 31 bits.                                      *)
(***************************************************************************)
LowerHex == <<"0", "1", "2", "3", "4", "5", "6", "7", "8", "9",
              "a", "b", "c", "d", "e", "f">>
UpperHex == <<"0", "1", "2", "3", "4", "5", "6", "7", "8", "9",
              "A", "B", "C", "D", "E", "F">>

IsHexDigit(c) == \E i \in 1..16 : c = LowerHex[i] \/ c = UpperHex[i]
HexDigitValue(c) == (CHOOSE i \in 1..16 : c = LowerHex[i] \/ c = UpperHex[i]) - 1

\* The regular expression /0x/i matches at index i (from 1).
Matches0xAt(s, i) == i + 1 <= Len(s) /\ s[i] = "0" /\ s[i + 1] \in {"x", "X"}

\* hexCode.replace(/0x/i, ''): the first match, wherever it is, is removed.
Replace0x(s) ==
    IF \E i \in 1..Len(s) : Matches0xAt(s, i)
    THEN LET i == CHOOSE k \in 1..Len(s) :
                      Matches0xAt(s, k) /\ \A j \in 1..(k - 1) : ~Matches0xAt(s, j)
         IN  SubSeq(s, 1, i - 1) \o SubSeq(s, i + 2, Len(s))
    ELSE s

RECURSIVE TrimLeft(_)
TrimLeft(s) == IF s # <<>> /\ Head(s) = " " THEN TrimLeft(Tail(s)) ELSE s

\* The longest prefix of hexadecimal digits, as digit values.
RECURSIVE DigitPrefix(_)
DigitPrefix(s) ==
    IF s # <<>> /\ IsHexDigit(Head(s))
    THEN <<HexDigitValue(Head(s))>> \o DigitPrefix(Tail(s))
    ELSE <<>>

NaN == [nan |-> TRUE, neg |-> FALSE, digits |-> <<>>]

\* parseInt(code, 16): leading white space, a sign, a 0x prefix, then the
\* digits up to the first character that is none; NaN when there is none.
parseInt16(code) ==
    LET t        == TrimLeft(code)
        neg      == t # <<>> /\ Head(t) = "-"
        unsigned == IF t # <<>> /\ Head(t) \in {"-", "+"} THEN Tail(t) ELSE t
        body     == IF Matches0xAt(unsigned, 1) THEN SubSeq(unsigned, 3, Len(unsigned))
                    ELSE unsigned
        digits   == DigitPrefix(body)
    IN  IF digits = <<>> THEN NaN
        ELSE [nan |-> FALSE, neg |-> neg, digits |-> digits]

\* The value of the digits modulo 2^32, as <<high 16 bits, low 16 bits>>.
RECURSIVE Mod32(_, _)
Mod32(digits, acc) ==
    IF digits = <<>> THEN acc
    ELSE LET lo == acc[2] * 16 + Head(digits)
             hi == acc[1] * 16 + lo \div 65536
         IN  Mod32(Tail(digits), <<hi % 65536, lo % 65536>>)

\* ToInt32, applied by >> to its left operand: NaN is 0; otherwise the
\* value modulo 2^32, read as a signed 32-bit integer.
ToInt32(num) ==
    LET u == Mod32(num.digits, <<0, 0>>)
        w == IF ~num.neg THEN u
             ELSE IF u[2] = 0 THEN <<(65536 - u[1]) % 65536, 0>>
             ELSE <<65535 - u[1], 65536 - u[2]>>
    IN  IF num.nan THEN 0
        ELSE IF w[1] >= 32768 THEN (w[1] - 65536) * 65536 + w[2]
        ELSE w[1] * 65536 + w[2]

\* x >> n on an int32: the sign-propagating shift.
ShiftRight(x, n) == x \div 2^n

\* const address = (hexCode >> 24) & 0xFF; const command = (hexCode >> 8) & 0xFF
ExtractFieldsUnmasked(hexCode) ==
    [address |-> ShiftRight(ToInt32(hexCode), 24),
     command |-> And255(ShiftRight(ToInt32(hexCode), 8))]

ExtractFields(hexCode) ==
    [address |-> And255(ShiftRight(ToInt32(hexCode), 24)),
     command |-> And255(ShiftRight(ToInt32(hexCode), 8))]

\* createAudioBuffer(signal): one channel holding the signal.
createAudioBuffer(gen, signal) ==
    [numberOfChannels |-> 1,
     length           |-> signal.length,
     sampleRate       |-> gen.sampleRate,
     channelData      |-> <<signal>>]

\* The Blob made by audioBufferToWav(buffer) for a generated signal, kept
\* as its type, its size and the buffer its bytes are serialized from.
WavBlob(buffer) ==
    [type   |-> "audio/wav",
     size   |-> WavHeaderSize + WavDataLength(buffer),
     buffer |-> buffer]

\* The rest of generateFromHex once the signal is generated.
GeneratedFromHex(gen, signal) ==
    [threw       |-> FALSE,
     audioBuffer |-> createAudioBuffer(gen, signal),
     wavBlob     |-> WavBlob(createAudioBuffer(gen, signal))]

\* The call of generateNECCommand with the extracted fields.
GenerateFromFields(gen, f) ==
    GeneratedFromHex(gen, generateNECCommand(gen, f.address, f.command))

\* generateFromHex(hexCode): throws on a length other than 8, otherwise
\* returns the audio buffer and the blob.
generateFromHex(gen, hexCode) ==
    IF Len(Replace0x(hexCode)) # 8 THEN [threw |-> TRUE]
    ELSE GenerateFromFields(gen, ExtractFields(parseInt16(Replace0x(hexCode))))

(***************************************************************************)
(* State.                                                                  *)
(*   vm             the Vue component's data (src/app.js data()).          *)
(*   objectUrls     the object URLs created and not revoked; a URL is the  *)
(*                  number of the createObjectURL call that made it.       *)
(*   urlCount       the number of createObjectURL calls so far.            *)
(*   openContexts   the AudioContexts created and not closed.              *)
(*   toast          the text of the last M.toast, "" when none was shown.  *)
(*   audioPlayer    the <audio> element: its src (0: none) and whether a   *)
(*                  play() promise is pending.                             *)
(*   pendingJobs    the jobs queued in Vue's scheduler and not yet run     *)
(*                  (watcher callbacks).  The scheduler flushes them in a  *)
(*                  microtask, so before the browser dispatches the next   *)
(*                  DOM event.                                             *)
(*   lifecycle      "mounted" until beforeUnmount has run.                 *)
(*   uncaught       the exception an event handler let escape, "none" when *)
(*                  none did.                                              *)
(*   arg, ret       the input and the result of a direct call of a library *)
(*                  function (generateNECCommand, audioBufferToWav,        *)
(*                  generateFromHex); in SpecGen the generator under test  *)
(*                  and the calls made on it so far.                       *)
(***************************************************************************)
VARIABLES vm, objectUrls, urlCount, openContexts, toast, audioPlayer,
          pendingJobs, lifecycle, uncaught, arg, ret

appVars == <<vm, objectUrls, urlCount, openContexts, toast, audioPlayer,
             pendingJobs, lifecycle, uncaught>>
vars == <<vm, objectUrls, urlCount, openContexts, toast, audioPlayer,
          pendingJobs, lifecycle, uncaught, arg, ret>>

Null == [null |-> TRUE]
NoArg == <<>>
NoReturn == [fn |-> "none"]

Byte == 0..255

ToastEnterCode == "Please enter a command code!"
ToastFormatError ==
    "Error: Invalid hex code format. Expected 8 hex digits (e.g., 0x20DF10EF)"
ToastCustomSent == "Custom command sent!"
ToastAudioReady == "Audio ready. Click play to transmit IR signal."

\* customCode: '0x20DF10EF'
DefaultCustomCode == <<"0", "x", "2", "0", "D", "F", "1", "0", "E", "F">>

\* data(), then mounted(): the generator and the app's AudioContext exist.
AppMounted ==
    /\ vm = [selectedBrand   |-> "lg",
             customCode      |-> DefaultCustomCode,
             frequency       |-> DefaultFrequency,
             lastCommand     |-> <<>>,
             audioUrl        |-> 0,
             audioBlob       |-> Null,
             irGenerator     |-> IRGenerator(DefaultFrequency),
             audioContext    |-> "open",
             debugInfo       |-> Null,
             waveformZoom    |-> 1,
             waveformOffset  |-> 0,
             currentSignal   |-> Null,
             currentAddress  |-> 0,
             currentCommand  |-> 0]
    /\ objectUrls = {}
    /\ urlCount = 0
    /\ openContexts = 1
    /\ toast = ""
    /\ audioPlayer = [src |-> 0, playPending |-> FALSE]
    /\ pendingJobs = {}
    /\ lifecycle = "mounted"
    /\ uncaught = "none"

\* The most AudioContexts the model lets exist at once: the app's own and
\* one for every createAudioBuffer call, none of which is closed.
MaxContexts == 3

\* 'Custom: ' + this.customCode
CustomName(code) == <<"C", "u", "s", "t", "o", "m", ":", " ">> \o code

\* generateAndPlay from the generated signal on: the blob, the debug
\* information, the object URL, the player and the waveform view.
PlayGenerated(lastCommand, hexCode, commandName, f, signal) ==
    /\ vm' = [vm EXCEPT
                !.lastCommand    = lastCommand,
                !.audioBlob      = WavBlob(createAudioBuffer(vm.irGenerator, signal)),
                !.debugInfo      = [commandName |-> commandName,
                                    hexCode     |-> hexCode,
                                    address     |-> f.address,
                                    command     |-> f.command,
                                    addressInv  |-> And255(BitNot(f.address)),
                                    commandInv  |-> And255(BitNot(f.command)),
                                    carrierFreq |-> vm.frequency,
                                    sampleRate  |-> vm.irGenerator.sampleRate,
                                    samples     |-> signal.length],
                !.audioUrl       = urlCount + 1,
                !.currentSignal  = signal,
                !.currentAddress = f.address,
                !.currentCommand = f.command,
                !.waveformZoom   = 1,
                !.waveformOffset = 0]
    /\ openContexts' = openContexts + 1
    /\ objectUrls' = (objectUrls \ {vm.audioUrl}) \cup {urlCount + 1}
    /\ urlCount' = urlCount + 1
    /\ audioPlayer' = [src |-> urlCount + 1, playPending |-> TRUE]
    /\ UNCHANGED <<pendingJobs, lifecycle, uncaught>>

\* generateAndPlay with the address and the command extracted.
PlayFields(lastCommand, hexCode, commandName, f) ==
    PlayGenerated(lastCommand, hexCode, commandName, f,
                  generateNECCommand(vm.irGenerator, f.address, f.command))

\* generateAndPlay(hexCode, commandName), called after this.lastCommand was
\* set to lastCommand.  The canvas drawn by the $nextTick callback
\* (drawWaveform) is not part of the state.
generateAndPlay(lastCommand, hexCode, commandName) ==
    PlayFields(lastCommand, hexCode, commandName, ExtractFields(hexCode))

\* The user edits the custom code field (v-model="customCode").
SetCustomCode(code) ==
    /\ pendingJobs = {}
    /\ lifecycle = "mounted"
    /\ code # vm.customCode
    /\ vm' = [vm EXCEPT !.customCode = code]
    /\ UNCHANGED <<objectUrls, urlCount, openContexts, toast, audioPlayer,
                   pendingJobs, lifecycle, uncaught, arg, ret>>

\* sendCustomCommand()
SendCustomCommand ==
    LET code == Replace0x(vm.customCode)
    IN  /\ pendingJobs = {}
        /\ lifecycle = "mounted"
        /\ \/ /\ vm.customCode = <<>>
              /\ toast' = ToastEnterCode
              /\ UNCHANGED <<vm, objectUrls, urlCount, openContexts, audioPlayer>>
           \/ /\ vm.customCode # <<>>
              /\ Len(code) # 8
              /\ vm' = [vm EXCEPT !.lastCommand = vm.customCode]
              /\ toast' = ToastFormatError
              /\ UNCHANGED <<objectUrls, urlCount, openContexts, audioPlayer>>
           \/ /\ vm.customCode # <<>>
              /\ Len(code) = 8
              /\ openContexts < MaxContexts
              /\ generateAndPlay(vm.customCode, parseInt16(code),
                                 CustomName(vm.customCode))
              /\ toast' = ToastCustomSent
        /\ UNCHANGED <<pendingJobs, lifecycle, uncaught, arg, ret>>

\* audioPlayer.play() settles: resolved, or rejected (auto-play prevented),
\* which shows a toast.
PlayResolved ==
    /\ audioPlayer.playPending
    /\ audioPlayer' = [audioPlayer EXCEPT !.playPending = FALSE]
    /\ UNCHANGED <<vm, objectUrls, urlCount, openContexts, toast, pendingJobs,
                   lifecycle, uncaught, arg, ret>>

PlayRejected ==
    /\ audioPlayer.playPending
    /\ audioPlayer' = [audioPlayer EXCEPT !.playPending = FALSE]
    /\ toast' = ToastAudioReady
    /\ UNCHANGED <<vm, objectUrls, urlCount, openContexts, pendingJobs,
                   lifecycle, uncaught, arg, ret>>

\* A direct call of generateFromHex on the app's generator; a call that
\* does not throw has created an AudioContext (createAudioBuffer).
CallGenerateFromHex(hexCode) ==
    /\ ret = NoReturn
    /\ Len(Replace0x(hexCode)) # 8 \/ openContexts < MaxContexts
    /\ arg' = hexCode
    /\ ret' = [fn |-> "generateFromHex", value |-> generateFromHex(vm.irGenerator, hexCode)]
    /\ openContexts' = IF ret'.value.threw THEN openContexts ELSE openContexts + 1
    /\ UNCHANGED <<vm, objectUrls, urlCount, toast, audioPlayer, pendingJobs,
                   lifecycle, uncaught>>

\* The user picks a carrier frequency (v-model="frequency"): the assignment
\* queues the frequency watcher.
FrequencyWatcher == "watch.frequency"

SetFrequency(newFreq) ==
    /\ pendingJobs = {}
    /\ lifecycle = "mounted"
    /\ newFreq # vm.frequency
    /\ vm' = [vm EXCEPT !.frequency = newFreq]
    /\ pendingJobs' = pendingJobs \cup {FrequencyWatcher}
    /\ UNCHANGED <<objectUrls, urlCount, openContexts, toast, audioPlayer,
                   lifecycle, uncaught, arg, ret>>

\* watch: frequency(newFreq) { this.irGenerator = new IRGenerator(newFreq) },
\* run by the scheduler's flush.
WatchFrequencyStale ==
    /\ FrequencyWatcher \in pendingJobs
    /\ pendingJobs' = pendingJobs \ {FrequencyWatcher}
    /\ UNCHANGED <<vm, objectUrls, urlCount, openContexts, toast, audioPlayer,
                   lifecycle, uncaught, arg, ret>>

WatchFrequency ==
    /\ FrequencyWatcher \in pendingJobs
    /\ vm' = [vm EXCEPT !.irGenerator = IRGenerator(vm.frequency)]
    /\ pendingJobs' = pendingJobs \ {FrequencyWatcher}
    /\ UNCHANGED <<objectUrls, urlCount, openContexts, toast, audioPlayer,
                   lifecycle, uncaught, arg, ret>>

\* LG_TV_CODES (the commands the model sends) and TV_REMOTES; a numeric
\* literal is the number its hex digits spell.
HexLiteral(text) == [nan |-> FALSE, neg |-> FALSE, digits |-> DigitPrefix(text)]

LG_TV_CODES ==
    [power |-> HexLiteral(<<"2", "0", "D", "F", "1", "0", "E", "F">>),
     volUp |-> HexLiteral(<<"2", "0", "D", "F", "4", "0", "B", "F">>),
     mute  |-> HexLiteral(<<"2", "0", "D", "F", "9", "0", "6", "F">>)]

TV_REMOTES == [lg |-> [name |-> "LG", codes |-> LG_TV_CODES]]

\* commandName.toUpperCase(), for the names of LG_TV_CODES.
ToUpperCase ==
    [power |-> <<"P", "O", "W", "E", "R">>,
     volUp |-> <<"V", "O", "L", "U", "P">>,
     mute  |-> <<"M", "U", "T", "E">>]

ToastNotFound == "Command not found!"
ToastSent == [power |-> "Sent: power", volUp |-> "Sent: volUp", mute |-> "Sent: mute"]
ToastNoAudio == "No audio to download. Generate a command first!"
ToastDownloaded == "Audio file downloaded!"

\* sendCommand(commandName)
SendCommand(commandName) ==
    LET brand == TV_REMOTES[vm.selectedBrand]
    IN  /\ pendingJobs = {}
        /\ lifecycle = "mounted"
        /\ \/ /\ commandName \notin DOMAIN brand.codes
              /\ toast' = ToastNotFound
              /\ UNCHANGED <<vm, objectUrls, urlCount, openContexts, audioPlayer,
                             pendingJobs, lifecycle, uncaught>>
           \/ /\ commandName \in DOMAIN brand.codes
              /\ openContexts < MaxContexts
              /\ generateAndPlay(ToUpperCase[commandName], brand.codes[commandName],
                                 <<brand.name, ToUpperCase[commandName]>>)
              /\ toast' = ToastSent[commandName]
        /\ UNCHANGED <<arg, ret>>

\* The most object URLs the model lets the application create.
MaxUrls == 4

\* downloadAudio(): the object URL it creates for the anchor is revoked
\* before it returns.  The file the browser saves is not part of the state.
DownloadAudioKeepingUrl ==
    /\ pendingJobs = {}
    /\ lifecycle = "mounted"
    /\ \/ /\ vm.audioBlob = Null
          /\ toast' = ToastNoAudio
          /\ UNCHANGED <<objectUrls, urlCount>>
       \/ /\ vm.audioBlob # Null
          /\ urlCount < MaxUrls
          /\ urlCount' = urlCount + 1
          /\ objectUrls' = objectUrls \cup {urlCount + 1}
          /\ toast' = ToastDownloaded
    /\ UNCHANGED <<vm, openContexts, audioPlayer, pendingJobs, lifecycle,
                   uncaught, arg, ret>>

DownloadAudio ==
    /\ pendingJobs = {}
    /\ lifecycle = "mounted"
    /\ \/ /\ vm.audioBlob = Null
          /\ toast' = ToastNoAudio
          /\ UNCHANGED <<objectUrls, urlCount>>
       \/ /\ vm.audioBlob # Null
          /\ urlCount < MaxUrls
          /\ urlCount' = urlCount + 1
          /\ objectUrls' = (objectUrls \cup {urlCount + 1}) \ {urlCount + 1}
          /\ toast' = ToastDownloaded
    /\ UNCHANGED <<vm, openContexts, audioPlayer, pendingJobs, lifecycle,
                   uncaught, arg, ret>>

\* beforeUnmount(): revokes audioUrl and closes the application's own
\* AudioContext.
BeforeUnmount ==
    /\ pendingJobs = {}
    /\ lifecycle = "mounted"
    /\ lifecycle' = "unmounted"
    /\ objectUrls' = IF vm.audioUrl # 0 THEN objectUrls \ {vm.audioUrl} ELSE objectUrls
    /\ openContexts' = IF vm.audioContext = "open" THEN openContexts - 1 ELSE openContexts
    /\ vm' = [vm EXCEPT !.audioContext = "closed"]
    /\ UNCHANGED <<urlCount, toast, audioPlayer, pendingJobs, uncaught, arg, ret>>

(***************************************************************************)
(* The waveform view.  Times in milliseconds (waveformOffset, the window,  *)
(* the signal's duration) are counted in units of 1/64 ms: 70 / zoom, a    *)
(* quarter of it and length / 192 are whole numbers of units for every     *)
(* zoom in 1, 2, .. 32 and the 22617-sample signal, and the doubles the    *)
(* code computes with are exact.  drawWaveform only paints the canvas.     *)
(***************************************************************************)
MsScale == 2^6
BaseWindow == 70
MaxZoom == 32

\* const windowMs = baseWindow / this.waveformZoom
WindowMs(zoom) == (BaseWindow * MsScale) \div zoom

\* const totalMs = this.currentSignal.length / (this.irGenerator.sampleRate / 1000)
TotalMs(signal, gen) == (signal.length * MsScale) \div (gen.sampleRate \div 1000)

Min(a, b) == IF a < b THEN a ELSE b
Max(a, b) == IF a > b THEN a ELSE b

viewUnchanged ==
    UNCHANGED <<objectUrls, urlCount, openContexts, toast, audioPlayer, pendingJobs,
                lifecycle, uncaught, arg, ret>>

\* zoomIn(): this.waveformZoom = Math.min(this.waveformZoom * 2, 32)
ZoomInUnlimited ==
    /\ pendingJobs = {}
    /\ lifecycle = "mounted"
    /\ vm' = [vm EXCEPT !.waveformZoom = vm.waveformZoom * 2]
    /\ viewUnchanged

ZoomIn ==
    /\ pendingJobs = {}
    /\ lifecycle = "mounted"
    /\ vm' = [vm EXCEPT !.waveformZoom = Min(vm.waveformZoom * 2, MaxZoom)]
    /\ viewUnchanged

\* zoomOut(): this.waveformZoom = Math.max(this.waveformZoom / 2, 1); half
\* of an odd zoom above 1 is kept as the fraction <<zoom, 2>>.
ZoomOut ==
    /\ pendingJobs = {}
    /\ lifecycle = "mounted"
    /\ vm' = [vm EXCEPT !.waveformZoom =
                 IF vm.waveformZoom % 2 = 0 THEN Max(vm.waveformZoom \div 2, 1)
                 ELSE IF vm.waveformZoom < 2 THEN 1
                 ELSE <<vm.waveformZoom, 2>>]
    /\ viewUnchanged

\* panLeft()
PanLeft ==
    /\ pendingJobs = {}
    /\ lifecycle = "mounted"
    /\ vm' = [vm EXCEPT !.waveformOffset =
                 Max(0, vm.waveformOffset - WindowMs(vm.waveformZoom) \div 4)]
    /\ viewUnchanged

\* panRight(): this.currentSignal.length throws a TypeError while
\* currentSignal is null.
PanRight ==
    /\ pendingJobs = {}
    /\ lifecycle = "mounted"
    /\ \/ /\ vm.currentSignal = Null
          /\ uncaught' = "TypeError"
          /\ UNCHANGED vm
       \/ /\ vm.currentSignal # Null
          /\ vm' = [vm EXCEPT !.waveformOffset =
                       Min(TotalMs(vm.currentSignal, vm.irGenerator)
                               - WindowMs(vm.waveformZoom),
                           vm.waveformOffset + WindowMs(vm.waveformZoom) \div 4)]
          /\ UNCHANGED uncaught
    /\ UNCHANGED <<objectUrls, urlCount, openContexts, toast, audioPlayer, pendingJobs,
                   lifecycle, arg, ret>>

\* resetZoom()
ResetZoom ==
    /\ pendingJobs = {}
    /\ lifecycle = "mounted"
    /\ vm' = [vm EXCEPT !.waveformZoom = 1, !.waveformOffset = 0]
    /\ viewUnchanged

(***************************************************************************)
(* Spec: the mounted application, its custom code field and direct calls   *)
(* of generateFromHex, on well-formed and malformed command texts.         *)
(***************************************************************************)
Prefix0x == <<"0", "x">>
PrefixUpper0X == <<"0", "X">>

CustomCodes ==
    { DefaultCustomCode,
      <<"2", "0", "D", "F", "1", "0", "E", "F">>,
      PrefixUpper0X \o <<"2", "0", "d", "f", "1", "0", "e", "f">>,
      <<"F", "F", "D", "F", "8", "0", "E", "F">>,
      <<>>,
      Prefix0x,
      Prefix0x \o <<"2", "0", "D", "F", "1", "0", "E">>,
      <<"2", "0", "D", "F", "1", "0", "E", "F", "0">>,
      <<"2", "0", "D", "F", "1", "0", "E", "G">>,
      <<"Z", "Z", "Z", "Z", "Z", "Z", "Z", "Z">>,
      <<"-", "2", "0", "D", "F", "1", "0", "E">>,
      Prefix0x \o Prefix0x \o <<"2", "0", "D", "F", "1", "0">>,
      <<"2", "0">> \o Prefix0x \o <<"D", "F", "1", "0", "E", "F">> }

Init ==
    /\ AppMounted
    /\ arg = NoArg
    /\ ret = NoReturn

Next ==
    \/ \E code \in CustomCodes : SetCustomCode(code)
    \/ SendCustomCommand
    \/ PlayResolved
    \/ PlayRejected
    \/ \E hexCode \in CustomCodes : CallGenerateFromHex(hexCode)

Spec == Init /\ [][Next]_vars

(***************************************************************************)
(* SpecWord: sendCustomCommand on well-formed command words, with every    *)
(* byte of the word drawn from ByteTexts.                                  *)
(***************************************************************************)
ByteTexts == { <<"0", "0">>, <<"2", "0">>, <<"D", "F">>, <<"1", "0">>,
               <<"E", "F">>, <<"f", "f">>, <<"8", "0">>, <<"7", "f">> }

WordTexts ==
    { p \o b3 \o b2 \o b1 \o b0 :
        p \in {<<>>, Prefix0x, PrefixUpper0X},
        b3 \in ByteTexts, b2 \in ByteTexts, b1 \in ByteTexts, b0 \in ByteTexts }

InitWord ==
    /\ AppMounted
    /\ arg \in WordTexts
    /\ ret = NoReturn

\* The user types the word into the custom code field, once.
TypeWord ==
    /\ vm.lastCommand = <<>>
    /\ toast = ""
    /\ SetCustomCode(arg)

\* The word is sent, once.
SendWord ==
    /\ vm.customCode = arg
    /\ toast = ""
    /\ SendCustomCommand

NextWord == TypeWord \/ SendWord

SpecWord == InitWord /\ [][NextWord]_vars

(***************************************************************************)
(* SpecNEC: generateNECCommand on every address and command byte.          *)
(***************************************************************************)
InitNEC ==
    /\ AppMounted
    /\ arg \in [address : Byte, command : Byte]
    /\ ret = NoReturn

CallGenerateNECCommand ==
    /\ ret = NoReturn
    /\ ret' = [fn    |-> "generateNECCommand",
               value |-> generateNECCommand(vm.irGenerator, arg.address, arg.command)]
    /\ UNCHANGED arg
    /\ UNCHANGED appVars

NextNEC == CallGenerateNECCommand

SpecNEC == InitNEC /\ [][NextNEC]_vars

(***************************************************************************)
(* SpecWav: audioBufferToWav on small buffers of one and two channels.     *)
(***************************************************************************)
MaxFrames == 2

BufferRates == {44100, SampleRate}

\* 0, 1, -1, the carrier amplitude 0.8, -0.7, and values outside [-1, 1].
SampleValues == {<<0, 1>>, <<1, 1>>, <<-1, 1>>, <<4, 5>>, <<-7, 10>>,
                 <<3, 2>>, <<-3, 2>>}
OtherChannelValues == {<<1, 1>>, <<-1, 1>>, <<4, 5>>}

\* The samples of channel c (from 0) of a test buffer of n frames.
ChannelChoices(c, n) ==
    [1..n -> IF c = 0 THEN SampleValues ELSE OtherChannelValues]

AudioBuffers ==
    UNION {
        { [numberOfChannels |-> 1, length |-> n, sampleRate |-> r,
           channelData |-> <<c0>>] :
              r \in BufferRates, c0 \in ChannelChoices(0, n) }
        \cup
        { [numberOfChannels |-> 2, length |-> n, sampleRate |-> r,
           channelData |-> <<c0, c1>>] :
              r \in {SampleRate}, c0 \in ChannelChoices(0, n),
              c1 \in ChannelChoices(1, n) }
        : n \in 0..MaxFrames }

InitWav ==
    /\ AppMounted
    /\ arg \in AudioBuffers
    /\ ret = NoReturn

CallAudioBufferToWav ==
    /\ ret = NoReturn
    /\ ret' = [fn |-> "audioBufferToWav", value |-> audioBufferToWav(arg)]
    /\ UNCHANGED arg
    /\ UNCHANGED appVars

NextWav == CallAudioBufferToWav

SpecWav == InitWav /\ [][NextWav]_vars

(***************************************************************************)
(* SpecGen: a generator constructed with some carrier frequency (also a    *)
(* frequency of 0), and calls of generateNECCommand, createAudioBuffer and *)
(* audioBufferToWav on it with addresses and commands inside and outside   *)
(* 0..255.  arg holds the generator, ret the calls made so far in order.   *)
(***************************************************************************)
GeneratorFrequencies == {DefaultFrequency, 36, 0}

CallAddresses == {32, 288, -224, 255}
CallCommands == {16, 272}

\* The most calls the model makes on one generator.
MaxCalls == 3

InitGen ==
    /\ AppMounted
    /\ arg \in {[gen |-> IRGenerator(f)] : f \in GeneratorFrequencies}
    /\ ret = <<>>

\* What a call leaves behind: its arguments, the signal and the blob.
GeneratedCall(gen, address, command, signal) ==
    [fn      |-> "generateNECCommand",
     address |-> address,
     command |-> command,
     signal  |-> signal,
     wavBlob |-> WavBlob(createAudioBuffer(gen, signal))]

\* A call that also stores the AudioContext's rate in the generator.
CallGenerateRetuning(address, command) ==
    /\ Len(ret) < MaxCalls
    /\ ret' = Append(ret, GeneratedCall(arg.gen, address, command,
                             generateNECCommand(arg.gen, address, command)))
    /\ arg' = [arg EXCEPT !.gen.sampleRate = 48000]
    /\ openContexts' = openContexts + 1
    /\ UNCHANGED <<vm, objectUrls, urlCount, toast, audioPlayer, pendingJobs,
                   lifecycle, uncaught>>

\* signal = gen.generateNECCommand(address, command), then
\* gen.audioBufferToWav(gen.createAudioBuffer(signal)); createAudioBuffer
\* creates an AudioContext.  No method assigns a field of the generator.
CallGenerate(address, command) ==
    /\ Len(ret) < MaxCalls
    /\ ret' = Append(ret, GeneratedCall(arg.gen, address, command,
                             generateNECCommand(arg.gen, address, command)))
    /\ openContexts' = openContexts + 1
    /\ UNCHANGED <<vm, objectUrls, urlCount, toast, audioPlayer, pendingJobs,
                   lifecycle, uncaught, arg>>

NextGen ==
    \E address \in CallAddresses, command \in CallCommands :
        CallGenerate(address, command)

SpecGen == InitGen /\ [][NextGen]_vars

(***************************************************************************)
(* SpecFreq: the mounted application with its carrier frequency field, the *)
(* frequency watcher and custom commands.                                  *)
(***************************************************************************)
Frequencies == {DefaultFrequency, 36, 40}

FrequencyCodes ==
    { DefaultCustomCode, <<>>, Prefix0x \o <<"2", "0", "D", "F", "1", "0", "E">> }

NextFreq ==
    \/ \E newFreq \in Frequencies : SetFrequency(newFreq)
    \/ WatchFrequency
    \/ \E code \in FrequencyCodes : SetCustomCode(code)
    \/ SendCustomCommand
    \/ PlayResolved
    \/ PlayRejected

SpecFreq == Init /\ [][NextFreq]_vars

(***************************************************************************)
(* SpecApp: the application's commands, downloads and unmounting.          *)
(***************************************************************************)
CommandNames == {"power", "volUp", "missing"}

NextApp ==
    \/ \E commandName \in CommandNames : SendCommand(commandName)
    \/ \E code \in FrequencyCodes : SetCustomCode(code)
    \/ SendCustomCommand
    \/ DownloadAudio
    \/ BeforeUnmount
    \/ PlayResolved
    \/ PlayRejected

SpecApp == Init /\ [][NextApp]_vars

(***************************************************************************)
(* SpecView: custom commands and the waveform view's zoom and pan.         *)
(***************************************************************************)
NextView ==
    \/ SendCustomCommand
    \/ ZoomIn
    \/ ZoomOut
    \/ ResetZoom
    \/ PanLeft
    \/ PanRight

SpecView == Init /\ [][NextView]_vars

(***************************************************************************)
(* Claims about the NEC frame (SpecNEC).                                   *)
(***************************************************************************)
NECDone == ret.fn = "generateNECCommand"

\* The payload the protocol prescribes, written without the code's bit
\* operators: address, 255 - address, command, 255 - command.
ExpectedPayload(address, command) ==
    <<address, 255 - address, command, 255 - command>>

\* Bit j (0..31) of the payload in transmission order: byte j \div 8,
\* least significant bit first.
ExpectedBit(address, command, j) ==
    (ExpectedPayload(address, command)[(j \div 8) + 1] \div 2^(j % 8)) % 2

IsPulse(part, duration) == part.modulated /\ part.duration = duration
IsSpace(part, duration) == ~part.modulated /\ part.duration = duration

\* The segments between the two leader segments and the two trailer
\* segments.
DataParts(signal) == SubSeq(signal.parts, 3, Len(signal.parts) - 2)

\* C1: for every address and command in 0..255 the frame carries exactly 32
\* data bits (64 segments) in the order address, complement of address,
\* command, complement of command, each byte least significant bit first;
\* every bit is a 562.5 us pulse followed by a 1687.5 us space for a 1 and
\* a 562.5 us space for a 0.
C1_DataBits ==
    NECDone =>
        LET d == DataParts(ret.value)
        IN  /\ Len(d) = 64
            /\ \A j \in 0..31 :
                   /\ IsPulse(d[2 * j + 1], 1125)
                   /\ IsSpace(d[2 * j + 2],
                              IF ExpectedBit(arg.address, arg.command, j) = 1
                              THEN 3375 ELSE 1125)

\* A frame for address 0x20, command 0x10 has been built: its bit 5 is a 1
\* (long space) and its bit 0 a 0 (short space).
C1_Witness ==
    /\ NECDone
    /\ arg.address = 32 /\ arg.command = 16
    /\ IsSpace(DataParts(ret.value)[12], 3375)
    /\ IsSpace(DataParts(ret.value)[2], 1125)

\* C2: the signal starts with a 9000 us pulse and a 4500 us space, and the
\* first data-bit pulse begins within one sample of
\* floor(13500e-6 * sampleRate) = 2592.
C2_LeaderTiming ==
    NECDone =>
        /\ IsPulse(ret.value.parts[1], 18000)
        /\ IsSpace(ret.value.parts[2], 9000)
        /\ ret.value.parts[1].offset = 0
        /\ ret.value.parts[3].modulated
        /\ ret.value.parts[3].offset \in (2592 - 1)..(2592 + 1)

\* C3: the 32 data bits are followed by exactly one 562.5 us stop pulse and
\* then one silence space of at least 40000 us, which is the last segment.
C3_StopAndGuard ==
    NECDone =>
        LET p == ret.value.parts
            n == Len(p)
        IN  /\ n = 2 + 64 + 2
            /\ IsPulse(p[n - 1], 1125)
            /\ ~p[n].modulated /\ p[n].duration >= 2 * 40000
            /\ p[n].offset + p[n].length = ret.value.length
            /\ ~p[n - 2].modulated

\* A frame whose last data bit is a 1 (command 0x00, complement 0xFF) has
\* been built, so the stop pulse follows a long space.
C3_Witness ==
    /\ NECDone
    /\ arg.command = 0
    /\ IsSpace(ret.value.parts[66], 3375)
    /\ ret.value.parts[67].modulated
(***************************************************************************)
(* Claims about command words and hex texts (SpecWord, Spec).              *)
(***************************************************************************)
\* The text without an optional leading "0x" or "0X".
StripLeadingPrefix(s) == IF Matches0xAt(s, 1) THEN SubSeq(s, 3, Len(s)) ELSE s

\* Exactly 8 hexadecimal digits after the optional leading prefix.
WellFormed(s) ==
    LET body == StripLeadingPrefix(s)
    IN  Len(body) = 8 /\ \A i \in 1..8 : IsHexDigit(body[i])

\* Byte k of a well-formed text, k = 1 for bits 31..24 down to k = 4 for
\* bits 7..0, read from its digits.
TextByte(s, k) ==
    LET body == StripLeadingPrefix(s)
    IN  16 * HexDigitValue(body[2 * k - 1]) + HexDigitValue(body[2 * k])

\* Data bit j (0..31) as a receiver reads it from the signal: a long space
\* is a 1.
DecodedBit(signal, j) ==
    IF DataParts(signal)[2 * j + 2].duration = 3375 THEN 1 ELSE 0

\* Transmitted byte k (1..4): its first bit on the air is its bit 0.
DecodedByte(signal, k) ==
    LET b(i) == DecodedBit(signal, 8 * (k - 1) + i)
    IN  b(0) + 2 * b(1) + 4 * b(2) + 8 * b(3) + 16 * b(4) + 32 * b(5)
        + 64 * b(6) + 128 * b(7)

\* x XOR y on bytes.
Xor8(x, y) ==
    LET b(i) == ((x \div 2^i) + (y \div 2^i)) % 2
    IN  b(0) + 2 * b(1) + 4 * b(2) + 8 * b(3) + 16 * b(4) + 32 * b(5)
        + 64 * b(6) + 128 * b(7)

WordSent == toast = ToastCustomSent /\ vm.lastCommand = arg

\* C4: the inverted fields transmitted are 255 - address and 255 - command
\* (XOR with the plain field gives 0xFF), made by the encoder from the
\* address (bits 31..24) and the command (bits 15..8) alone: the bits sent
\* do not depend on bits 23..16 and 7..0 of the input word.
C4_InvertedFields ==
    WordSent =>
        LET a == TextByte(arg, 1)
            c == TextByte(arg, 3)
            s == vm.currentSignal
        IN  /\ DecodedByte(s, 1) = a
            /\ DecodedByte(s, 2) = 255 - a
            /\ DecodedByte(s, 3) = c
            /\ DecodedByte(s, 4) = 255 - c
            /\ Xor8(a, DecodedByte(s, 2)) = 255
            /\ Xor8(c, DecodedByte(s, 4)) = 255

\* A word whose bits 23..16 and 7..0 are not the complements of its address
\* and command has been sent, and complements were transmitted all the same.
C4_Witness ==
    /\ WordSent
    /\ TextByte(arg, 2) # 255 - TextByte(arg, 1)
    /\ TextByte(arg, 4) # 255 - TextByte(arg, 3)
    /\ DecodedByte(vm.currentSignal, 2) = 255 - TextByte(arg, 1)
    /\ DecodedByte(vm.currentSignal, 4) # TextByte(arg, 4)

\* C5: hex decoding fails with a format error, and generates no signal, for
\* every input that is not exactly 8 hexadecimal digits after an optional
\* leading 0x: sendCustomCommand reports success, and generateFromHex
\* returns, only for well-formed input.
C5_MalformedRejected ==
    /\ toast = ToastCustomSent => WellFormed(vm.lastCommand)
    /\ vm.currentSignal # Null => WellFormed(vm.lastCommand)
    /\ (ret.fn = "generateFromHex" /\ ~ret.value.threw) => WellFormed(arg)

\* The 32-bit word with the layout address, inverted address, command,
\* inverted command, as the Number parseInt gives for its 8 digits.
PackWord(address, command) ==
    [nan |-> FALSE, neg |-> FALSE,
     digits |-> <<address \div 16, address % 16,
                  (255 - address) \div 16, (255 - address) % 16,
                  command \div 16, command % 16,
                  (255 - command) \div 16, (255 - command) % 16>>]

\* C6: for every 32-bit word, also with bit 31 set, the extracted address
\* is bits 31..24 and the command bits 15..8, both in 0..255 (0x20DF10EF
\* gives 0x20 and 0x10); packing them again and extracting returns them.
C6_FieldExtraction ==
    WordSent =>
        /\ vm.currentAddress = TextByte(arg, 1)
        /\ vm.currentCommand = TextByte(arg, 3)
        /\ vm.currentAddress \in 0..255 /\ vm.currentCommand \in 0..255
        /\ arg = DefaultCustomCode =>
               vm.currentAddress = 32 /\ vm.currentCommand = 16
        /\ ExtractFields(PackWord(vm.currentAddress, vm.currentCommand))
               = [address |-> vm.currentAddress, command |-> vm.currentCommand]

\* A word with bit 31 set (address 0xFF or 0x80) has been sent.
C6_Witness ==
    /\ WordSent
    /\ TextByte(arg, 1) >= 128
    /\ vm.currentAddress >= 128
    /\ vm.debugInfo.hexCode.digits[1] >= 8

(***************************************************************************)
(* Claims about the WAV bytes (SpecWav).                                   *)
(***************************************************************************)
WavDone == ret.fn = "audioBufferToWav"

\* Little-endian reads at a byte offset (from 0).
ReadU16(bytes, offset) == bytes[offset + 1] + 256 * bytes[offset + 2]
ReadU32(bytes, offset) ==
    bytes[offset + 1] + 256 * bytes[offset + 2] + 65536 * bytes[offset + 3]
    + 16777216 * bytes[offset + 4]
ReadI16(bytes, offset) ==
    IF ReadU16(bytes, offset) >= 32768 THEN ReadU16(bytes, offset) - 65536
    ELSE ReadU16(bytes, offset)

\* C7: the header is 44 bytes with dataLength (offset 40) = frames *
\* channels * 2, RIFF size (offset 4) = 36 + dataLength, byte rate (offset
\* 28) = sampleRate * 2 * channels, block align (offset 32) = 2 * channels,
\* 16 bits per sample, PCM format 1; the file is 44 + dataLength bytes.
C7_WavHeader ==
    WavDone =>
        LET b == ret.value
            dataLength == arg.length * arg.numberOfChannels * 2
        IN  /\ Len(b) = 44 + dataLength
            /\ ReadU32(b, 40) = dataLength
            /\ ReadU32(b, 4) = 36 + dataLength
            /\ ReadU32(b, 28) = arg.sampleRate * 2 * arg.numberOfChannels
            /\ ReadU16(b, 32) = 2 * arg.numberOfChannels
            /\ ReadU16(b, 34) = 16
            /\ ReadU16(b, 20) = 1
            /\ ReadU16(b, 22) = arg.numberOfChannels
            /\ ReadU32(b, 24) = arg.sampleRate

\* A two-channel buffer of two frames has been serialized: 8 data bytes.
C7_Witness ==
    /\ WavDone
    /\ arg.numberOfChannels = 2 /\ arg.length = 2
    /\ ReadU32(ret.value, 40) = 8
    /\ Len(ret.value) = 52

\* The 16-bit value the encoder writes for a sample.
Quantized(s) == ReadI16(Int16LE(Scale(Clamp(s))), 0)

\* C8: the data region holds the samples of all channels interleaved frame
\* by frame (L0, R0, L1, R1, ... for two channels), each sample of each
\* channel once; for one channel sample i is at offset 44 + 2 * i.
C8_Interleaved ==
    WavDone =>
        \A c \in 0..(arg.numberOfChannels - 1) : \A i \in 0..(arg.length - 1) :
            ReadI16(ret.value, 44 + 2 * (i * arg.numberOfChannels + c))
                = Quantized(arg.channelData[c + 1][i + 1])

\* The value written for frame i (from 0) of channel 0, where
\* floatTo16BitPCM puts it.
Written(i) == ReadI16(ret.value, 44 + 2 * i)

IsAbove(s, k) == s[1] > k * s[2]
IsBelow(s, k) == s[1] < k * s[2]
IsValue(s, k) == s[1] = k * s[2]

\* C9: 1.0 is written as 32767, -1.0 as -32768, 0.0 as 0; inputs above 1.0
\* are written as 32767 and inputs below -1.0 as -32768, so no written
\* value wraps around the signed 16-bit range (the sign is kept).
C9_ClampedRange ==
    WavDone =>
        \A i \in 0..(arg.length - 1) :
            LET s == arg.channelData[1][i + 1]
            IN  /\ IsValue(s, 1) => Written(i) = 32767
                /\ IsValue(s, -1) => Written(i) = -32768
                /\ IsValue(s, 0) => Written(i) = 0
                /\ IsAbove(s, 1) => Written(i) = 32767
                /\ IsBelow(s, -1) => Written(i) = -32768
                /\ IsAbove(s, 0) => Written(i) > 0
                /\ IsBelow(s, 0) => Written(i) < 0

\* A buffer holding 1.5 and then -1.5 has been serialized.
C9_Witness ==
    /\ WavDone
    /\ arg.length = 2
    /\ arg.channelData[1] = << <<3, 2>>, <<-3, 2>> >>
    /\ Written(0) = 32767 /\ Written(1) = -32768

\* Math.round of the rational n / d: floor(n / d + 1/2).
RoundNearest(n, d) == (2 * n + d) \div (2 * d)

\* v is n / d with its fraction discarded (rounded toward zero).
IsTruncationOf(v, n, d) ==
    IF n >= 0 THEN v * d <= n /\ n < (v + 1) * d
    ELSE (v - 1) * d < n /\ n <= v * d

InUnitRange(s) == ~IsAbove(s, 1) /\ ~IsBelow(s, -1)

\* C10 as stated: for s in [-1, 1] the value written is round(s * 32768)
\* when s < 0 and round(s * 32767) otherwise, rounding to nearest.
C10_RoundedToNearest ==
    WavDone =>
        \A i \in 0..(arg.length - 1) :
            LET s == arg.channelData[1][i + 1]
            IN  InUnitRange(s) =>
                    Written(i) = RoundNearest(
                        s[1] * (IF s[1] < 0 THEN 32768 ELSE 32767), s[2])

\* C10 amended: for s in [-1, 1] the value written is s * 32768 when s < 0
\* and s * 32767 otherwise with the fraction discarded (truncation toward
\* zero, not rounding to nearest): 0.8 is written as 26213.
C10_Truncated ==
    WavDone =>
        \A i \in 0..(arg.length - 1) :
            LET s == arg.channelData[1][i + 1]
            IN  InUnitRange(s) =>
                    IsTruncationOf(Written(i),
                        s[1] * (IF s[1] < 0 THEN 32768 ELSE 32767), s[2])

\* A buffer holding the carrier amplitude 0.8 and -0.7 has been serialized:
\* 26213 and -22937 are written, where rounding gives 26214 and -22938.
C10_Witness ==
    /\ WavDone
    /\ arg.length = 2
    /\ arg.channelData[1] = << <<4, 5>>, <<-7, 10>> >>
    /\ Written(0) = 26213 /\ Written(1) = -22937

(***************************************************************************)
(* Claims about sample counts and the assembled signal (SpecNEC).          *)
(***************************************************************************)
\* floor(d / 1000000 * sampleRate) in exact arithmetic, for a duration in
\* half microseconds and a rate that is a multiple of 1000.
ExactSampleCount(duration, sampleRate) ==
    (duration * (sampleRate \div 1000)) \div (2 * (MicrosPerSecond \div 1000))

\* C11: a segment of d microseconds has exactly floor(d / 1000000 *
\* sampleRate) samples: at 192000 Hz, 1728 for 9000 us, 864 for 4500 us,
\* 108 for 562.5 us and 324 for 1687.5 us.
C11_SampleCounts ==
    NECDone =>
        /\ \A k \in DOMAIN ret.value.parts :
              ret.value.parts[k].length =
                  ExactSampleCount(ret.value.parts[k].duration,
                                   vm.irGenerator.sampleRate)
        /\ ret.value.parts[1].length = 1728
        /\ ret.value.parts[2].length = 864
        /\ ret.value.parts[3].length = 108
        /\ \A k \in DOMAIN ret.value.parts :
              ret.value.parts[k].duration = OneSpace
                  => ret.value.parts[k].length = 324

\* The sum of the sample counts of the parts' durations.
RECURSIVE SumOfSampleCounts(_)
SumOfSampleCounts(parts) ==
    IF parts = <<>> THEN 0
    ELSE SampleCountAtRate[Head(parts).duration] + SumOfSampleCounts(Tail(parts))

CountParts(signal, Test(_)) ==
    Cardinality({k \in DOMAIN signal.parts : Test(signal.parts[k])})

IsLeaderPulse(part) == IsPulse(part, AGCPulse)
\* A space longer than any space inside a frame.
IsGap(part) == ~part.modulated /\ part.duration > AGCSpace
IsGap40000(part) == IsSpace(part, 2 * 40000)

C15_InvalidRejected ==
    \A i \in DOMAIN ret : arg.gen.carrierFrequency > 0

\* The payload bytes read back from a signal.
DecodedPayload(signal) == [k \in 1..4 |-> DecodedByte(signal, k)]

\* C19: for every integer address and command, also outside 0..255, the
\* signal is the one produced for address mod 256 and command mod 256, and
\* it carries exactly 32 data bits.
C19_Modulo256 ==
    \A i \in DOMAIN ret :
        /\ ret[i].signal = generateNECCommand(arg.gen, ret[i].address % 256,
                                              ret[i].command % 256)
        /\ Len(DataParts(ret[i].signal)) = 2 * 32
        /\ DecodedPayload(ret[i].signal)
              = ExpectedPayload(ret[i].address % 256, ret[i].command % 256)

\* Address 0x120 and command 0x110 were sent as 0x20 and 0x10, and the
\* negative address -224 as 0x20.
C19_Witness ==
    /\ Len(ret) = 2
    /\ ret[1].address = 288 /\ ret[1].command = 272
    /\ ret[2].address = -224
    /\ DecodedPayload(ret[1].signal) = <<32, 223, 16, 239>>
    /\ DecodedByte(ret[2].signal, 1) = 32

(***************************************************************************)
(* Claims about rejected commands (Spec).                                  *)
(***************************************************************************)
\* C16: a step that rejects a command with the format error leaves
\* audioBlob, audioUrl, debugInfo, currentSignal and lastCommand as they
\* were, so lastCommand still names the command that produced the audio.
C16_RejectedNoChange ==
    [][toast' = ToastFormatError
          => /\ vm'.audioBlob = vm.audioBlob
             /\ vm'.audioUrl = vm.audioUrl
             /\ vm'.debugInfo = vm.debugInfo
             /\ vm'.currentSignal = vm.currentSignal
             /\ vm'.lastCommand = vm.lastCommand]_vars

(***************************************************************************)
(* Claims about the samples of a signal (SpecNEC).                         *)
(***************************************************************************)
\* The samples of a segment: how many equal the carrier amplitude, and the
\* set of their values.
Rendered(gen, part) ==
    [duration  |-> part.duration,
     modulated |-> part.modulated,
     onCount   |-> Cardinality({i \in 0..(part.length - 1) :
                                  PulseSample(gen, part, i) = CarrierAmplitude}),
     values    |-> {PulseSample(gen, part, i) : i \in 0..(part.length - 1)}]

\* The segments generateNECCommand renders, rendered once by the default
\* generator.
SegmentKinds ==
    { <<AGCPulse, TRUE>>, <<AGCSpace, FALSE>>, <<BitPulse, TRUE>>,
      <<OneSpace, FALSE>>, <<ZeroSpace, FALSE>>, <<TailSilence, FALSE>> }

DefaultGenerator == IRGenerator(DefaultFrequency)

RenderedKinds ==
    { Rendered(DefaultGenerator,
               generatePulse(DefaultGenerator, kind[1], kind[2])) :
          kind \in SegmentKinds }

RenderedPart(gen, part) ==
    IF gen = DefaultGenerator /\ <<part.duration, part.modulated>> \in SegmentKinds
    THEN CHOOSE r \in RenderedKinds :
             r.duration = part.duration /\ r.modulated = part.modulated
    ELSE Rendered(gen, part)

Abs(x) == IF x < 0 THEN -x ELSE x

\* |onCount - dutyCycle * N| <= sampleRate / carrierFrequency, in integers.
WithinOnePeriod(gen, onCount, n) ==
    Abs(PercentScale * onCount - gen.dutyCycle * n) * (gen.carrierFrequency \div 1000)
        <= PercentScale * (gen.sampleRate \div 1000)

\* C17: in a Pulse of N samples the number of samples equal to +A = 0.8 is
\* dutyCycle * N (0.33 * N) to within one carrier period of samples, and
\* all other samples of the Pulse are 0.
C17_DutyCycle ==
    NECDone =>
        \A k \in DOMAIN ret.value.parts :
            ret.value.parts[k].modulated =>
                /\ WithinOnePeriod(vm.irGenerator,
                       RenderedPart(vm.irGenerator, ret.value.parts[k]).onCount,
                       ret.value.parts[k].length)
                /\ RenderedPart(vm.irGenerator, ret.value.parts[k]).values
                       \subseteq {CarrierAmplitude, Silence}

AtMostAmplitude(s) == s[1] * CarrierAmplitude[2] <= CarrierAmplitude[1] * s[2]

\* C18: every sample of a Space is exactly 0, every sample of a Pulse lies
\* in [0, 0.8], so every sample of the signal lies in [-1, 1] and the WAV
\* encoder's clamp leaves it as it is.
C18_SampleRange ==
    NECDone =>
        \A k \in DOMAIN ret.value.parts :
            \A s \in RenderedPart(vm.irGenerator, ret.value.parts[k]).values :
                /\ ~ret.value.parts[k].modulated => s = Silence
                /\ ret.value.parts[k].modulated
                       => ~IsBelow(s, 0) /\ AtMostAmplitude(s)
                /\ InUnitRange(s)
                /\ Clamp(s) = s

\* A frame whose leader pulse has samples at 0.8 and at 0, and whose
\* spaces are all 0.
C18_Witness ==
    /\ NECDone
    /\ RenderedPart(vm.irGenerator, ret.value.parts[1]).values
           = {CarrierAmplitude, Silence}
    /\ RenderedPart(vm.irGenerator, ret.value.parts[2]).values = {Silence}
    /\ RenderedPart(vm.irGenerator, ret.value.parts[68]).values = {Silence}

(***************************************************************************)
(* Claims about the carrier frequency (SpecFreq).                          *)
(***************************************************************************)
\* C20: a step that generates a command uses a generator whose
\* carrierFrequency is frequency * 1000, the frequency the command's
\* debugInfo.carrierFreq reports, and leaves that generator as it is; the
\* generator changes only by being replaced with new IRGenerator(frequency).
C20_GeneratorFollowsFrequency ==
    [][/\ urlCount' # urlCount
             => /\ vm'.debugInfo.carrierFreq = vm.frequency
                /\ vm.irGenerator.carrierFrequency = vm'.debugInfo.carrierFreq * 1000
                /\ vm'.irGenerator = vm.irGenerator
       /\ vm'.irGenerator # vm.irGenerator
             => vm'.irGenerator = IRGenerator(vm'.frequency)]_vars

\* A command was sent at 38 kHz, the frequency changed to 40 kHz, and the
\* command was sent again.
C20_Witness ==
    /\ urlCount = 2
    /\ vm.frequency = 40
    /\ vm.debugInfo # Null
    /\ vm.debugInfo.carrierFreq = 40
    /\ vm.irGenerator.carrierFrequency = 40000

(***************************************************************************)
(* Claims about the signal's length (SpecNEC).                             *)
(***************************************************************************)
\* C21: the signal has the same length for every address and command in
\* 0..255, 22668 samples at 192000 Hz.
C21_FixedLength ==
    NECDone => ret.value.length = 22668

(***************************************************************************)
(* Claims about object URLs and AudioContexts (SpecApp).                   *)
(***************************************************************************)
\* C22: at most one object URL is created and not revoked, and it is the
\* current audioUrl; downloadAudio leaves none of its own and creates none
\* while no audio was generated; after beforeUnmount none is left.
C22_OneObjectUrl ==
    /\ Cardinality(objectUrls) <= 1
    /\ objectUrls \subseteq {vm.audioUrl}
    /\ vm.audioBlob = Null => urlCount = 0
    /\ lifecycle = "unmounted" => objectUrls = {}

\* Two commands were sent and the audio downloaded: three URLs were
\* created, and only the second command's is left.
C22_Witness ==
    /\ urlCount = 3
    /\ vm.audioUrl = 2
    /\ objectUrls = {2}
    /\ toast = ToastDownloaded

\* C23: at most one AudioContext is open however many commands are sent,
\* and none is open after beforeUnmount.
C23_OneAudioContext ==
    /\ openContexts <= 1
    /\ lifecycle = "unmounted" => openContexts = 0

(***************************************************************************)
(* Claims about the waveform view (SpecView).                              *)
(***************************************************************************)
ZoomLevels == {1, 2, 4, 8, 16, 32}

\* C24: waveformZoom is always one of 1, 2, 4, 8, 16, 32; zoomIn at 32 and
\* zoomOut at 1 leave it unchanged; every newly generated command resets
\* waveformZoom to 1 and waveformOffset to 0.
C24_ZoomLevels ==
    [][/\ vm'.waveformZoom \in ZoomLevels
       /\ (ZoomIn /\ vm.waveformZoom = 32) => vm'.waveformZoom = 32
       /\ (ZoomOut /\ vm.waveformZoom = 1) => vm'.waveformZoom = 1
       /\ vm'.audioUrl # vm.audioUrl
             => vm'.waveformZoom = 1 /\ vm'.waveformOffset = 0]_vars

\* A second command was generated after zooming and panning, and the view
\* was zoomed in to 32 again.
C24_Witness ==
    /\ urlCount = 2
    /\ vm.waveformZoom = 32
    /\ vm.waveformOffset = 0

\* C25: once a command has been generated the visible window lies inside
\* the signal, 0 <= waveformOffset and waveformOffset + 70 / waveformZoom
\* <= the signal's duration in ms; and no pan operation fails, also before
\* the first command.
C25_WindowInside ==
    /\ uncaught = "none"
    /\ vm.currentSignal # Null
          => /\ 0 <= vm.waveformOffset
             /\ vm.waveformOffset + WindowMs(vm.waveformZoom)
                    <= TotalMs(vm.currentSignal, vm.irGenerator)
====
